---------------------------- MODULE Spec2Model ----------------------------
(***************************************************************************)
(* Model of src/services/configService.js: the settings store, the model   *)
(* quota registry, the category quota policy and the worker key registry,  *)
(* each operation split at its await points (the storage statement and the *)
(* call of syncToGitHub).                                                  *)
(*                                                                         *)
(* JavaScript values are tagged records.  A string is a sequence of        *)
(* one-character strings, so that String(), JSON.stringify and JSON.parse  *)
(* are computed character by character.  A finite number is kept in        *)
(* tenths (n = 15 is 1.5), which is exact for every number of the input    *)
(* sets below.                                                             *)
(***************************************************************************)
EXTENDS Integers, Sequences, FiniteSets, TLC

(***************************************************************************)
(* JavaScript values                                                       *)
(***************************************************************************)
Undef == [t |-> "undefined"]
Null == [t |-> "null"]
NaN == [t |-> "nan"]
Bool(b) == [t |-> "bool", b |-> b]
Num(n) == [t |-> "num", n |-> n]
Whole(i) == [t |-> "num", n |-> 10 * i]
Str(s) == [t |-> "str", s |-> s]
Obj(m) == [t |-> "obj", m |-> m]

\* typeof v
TypeOf(v) ==
    CASE v.t = "undefined" -> "undefined"
      [] v.t = "null" -> "object"
      [] v.t = "obj" -> "object"
      [] v.t = "num" -> "number"
      [] v.t = "nan" -> "number"
      [] v.t = "bool" -> "boolean"
      [] v.t = "str" -> "string"

Digits == <<"0", "1", "2", "3", "4", "5", "6", "7", "8", "9">>
IsDigit(c) == \E d \in 1..10 : Digits[d] = c
DigitVal(c) == (CHOOSE d \in 1..10 : Digits[d] = c) - 1

RECURSIVE NatToStr(_)
NatToStr(i) == IF i < 10 THEN <<Digits[i + 1]>>
               ELSE NatToStr(i \div 10) \o <<Digits[(i % 10) + 1]>>

Abs(n) == IF n < 0 THEN 0 - n ELSE n

\* Number.prototype.toString of a finite number kept in tenths.
NumToStr(n) ==
    (IF n < 0 THEN <<"-">> ELSE <<>>)
    \o NatToStr(Abs(n) \div 10)
    \o (IF Abs(n) % 10 = 0 THEN <<>> ELSE <<".", Digits[(Abs(n) % 10) + 1]>>)

\* String(v) for a v that is not a non-null object.
StringOf(v) ==
    CASE v.t = "str" -> v.s
      [] v.t = "num" -> NumToStr(v.n)
      [] v.t = "nan" -> <<"N", "a", "N">>
      [] v.t = "bool" -> IF v.b THEN <<"t", "r", "u", "e">>
                                ELSE <<"f", "a", "l", "s", "e">>
      [] v.t = "null" -> <<"n", "u", "l", "l">>
      [] v.t = "undefined" -> <<"u", "n", "d", "e", "f", "i", "n", "e", "d">>

RECURSIVE QuoteChars(_)
QuoteChars(s) ==
    IF s = <<>> THEN <<>>
    ELSE (IF Head(s) \in {"\"", "\\"} THEN <<"\\", Head(s)>> ELSE <<Head(s)>>)
         \o QuoteChars(Tail(s))

\* JSON.stringify of a string: quoted, with " and \ escaped.
Quote(s) == <<"\"">> \o QuoteChars(s) \o <<"\"">>

RECURSIVE JsonStringify(_)
RECURSIVE StringifyMembers(_, _)
\* The members of an object, in order; a member whose value is undefined
\* is left out.
StringifyMembers(m, first) ==
    IF m = <<>> THEN <<>>
    ELSE IF Head(m)[2].t = "undefined" THEN StringifyMembers(Tail(m), first)
    ELSE (IF first THEN <<>> ELSE <<",">>)
         \o Quote(Head(m)[1]) \o <<":">> \o JsonStringify(Head(m)[2])
         \o StringifyMembers(Tail(m), FALSE)

\* JSON.stringify(v) for a v that is not undefined.
JsonStringify(v) ==
    CASE v.t = "obj" -> <<"{">> \o StringifyMembers(v.m, TRUE) \o <<"}">>
      [] v.t = "str" -> Quote(v.s)
      [] v.t = "num" -> NumToStr(v.n)
      [] v.t = "nan" -> <<"n", "u", "l", "l">>
      [] v.t = "bool" -> StringOf(v)
      [] v.t = "null" -> <<"n", "u", "l", "l">>

(***************************************************************************)
(* JSON.parse, for the JSON grammar without arrays, exponents, escapes     *)
(* other than \" \\ \/ and more than one significant fractional digit      *)
(* (none of which the input sets below contain).  A parse result is        *)
(* [ok, v, i]: whether a value was read, the value, the index after it.    *)
(***************************************************************************)
ParseFail == [ok |-> FALSE, v |-> Null, i |-> 0]
ParseOk(v, i) == [ok |-> TRUE, v |-> v, i |-> i]

IsWs(c) == c \in {" ", "\t", "\n", "\r"}

RECURSIVE SkipWs(_, _)
SkipWs(s, i) == IF i <= Len(s) /\ IsWs(s[i]) THEN SkipWs(s, i + 1) ELSE i

RECURSIVE ScanDigits(_, _)
ScanDigits(s, i) == IF i <= Len(s) /\ IsDigit(s[i]) THEN ScanDigits(s, i + 1) ELSE i

\* The value of the digits s[i..j-1].
RECURSIVE DigitsVal(_, _, _)
DigitsVal(s, i, j) == IF j <= i THEN 0
                      ELSE 10 * DigitsVal(s, i, j - 1) + DigitVal(s[j - 1])

\* Whether the characters of w stand in s at index i.
Matches(s, i, w) == /\ i + Len(w) - 1 <= Len(s)
                    /\ \A j \in 1..Len(w) : s[i + j - 1] = w[j]

ParseNumber(s, i) ==
    LET neg == s[i] = "-"
        st == IF neg THEN i + 1 ELSE i
        e1 == ScanDigits(s, st)
        intOk == e1 > st /\ (s[st] = "0" => e1 = st + 1)
        hasFrac == e1 <= Len(s) /\ s[e1] = "."
        e2 == IF hasFrac THEN ScanDigits(s, e1 + 1) ELSE e1
        fracOk == hasFrac => (e2 > e1 + 1 /\ \A j \in (e1 + 2)..(e2 - 1) : s[j] = "0")
        mag == 10 * DigitsVal(s, st, e1) + (IF hasFrac THEN DigitVal(s[e1 + 1]) ELSE 0)
    IN  IF intOk /\ fracOk
        THEN ParseOk(Num(IF neg THEN 0 - mag ELSE mag), e2)
        ELSE ParseFail

\* The string whose opening quote precedes index i.
RECURSIVE ScanString(_, _, _)
ScanString(s, i, acc) ==
    IF i > Len(s) THEN ParseFail
    ELSE IF s[i] = "\"" THEN ParseOk(Str(acc), i + 1)
    ELSE IF s[i] = "\\"
         THEN IF i + 1 <= Len(s) /\ s[i + 1] \in {"\"", "\\", "/"}
              THEN ScanString(s, i + 2, Append(acc, s[i + 1]))
              ELSE ParseFail
    ELSE ScanString(s, i + 1, Append(acc, s[i]))

RECURSIVE ParseValue(_, _)
RECURSIVE ParseMember(_, _, _)
\* One "key": value member at index j, after the members acc.
ParseMember(s, j, acc) ==
    IF j > Len(s) \/ s[j] # "\"" THEN ParseFail
    ELSE LET k == ScanString(s, j + 1, <<>>)
             c == SkipWs(s, k.i)
             val == ParseValue(s, SkipWs(s, c + 1))
             d == SkipWs(s, val.i)
             more == Append(acc, <<k.v.s, val.v>>)
         IN  IF ~k.ok \/ c > Len(s) \/ s[c] # ":" THEN ParseFail
             ELSE IF ~val.ok \/ d > Len(s) THEN ParseFail
             ELSE IF s[d] = "," THEN ParseMember(s, SkipWs(s, d + 1), more)
             ELSE IF s[d] = "}" THEN ParseOk(Obj(more), d + 1)
             ELSE ParseFail

ParseValue(s, i) ==
    IF i > Len(s) THEN ParseFail
    ELSE IF s[i] = "{"
         THEN LET j == SkipWs(s, i + 1)
              IN  IF j <= Len(s) /\ s[j] = "}" THEN ParseOk(Obj(<<>>), j + 1)
                  ELSE ParseMember(s, j, <<>>)
    ELSE IF s[i] = "\"" THEN ScanString(s, i + 1, <<>>)
    ELSE IF s[i] = "-" \/ IsDigit(s[i]) THEN ParseNumber(s, i)
    ELSE IF Matches(s, i, <<"t", "r", "u", "e">>) THEN ParseOk(Bool(TRUE), i + 4)
    ELSE IF Matches(s, i, <<"f", "a", "l", "s", "e">>) THEN ParseOk(Bool(FALSE), i + 5)
    ELSE IF Matches(s, i, <<"n", "u", "l", "l">>) THEN ParseOk(Null, i + 4)
    ELSE ParseFail

\* JSON.parse(s): ok is FALSE where JSON.parse throws.
JsonParse(s) ==
    LET r == ParseValue(s, SkipWs(s, 1))
    IN  IF r.ok /\ SkipWs(s, r.i) = Len(s) + 1 THEN r ELSE ParseFail

\* Number(s) of a string: the empty (or blank) string is 0, a decimal
\* literal is its value, anything else is NaN.
StringToNumber(s) ==
    LET i == SkipWs(s, 1)
        r == ParseNumber(s, i)
    IN  IF i > Len(s) THEN Whole(0)
        ELSE IF (s[i] = "-" \/ IsDigit(s[i])) /\ r.ok /\ SkipWs(s, r.i) = Len(s) + 1
             THEN r.v
        ELSE NaN

\* Number(v)
ToNumber(v) ==
    CASE v.t = "num" -> v
      [] v.t = "nan" -> NaN
      [] v.t = "str" -> StringToNumber(v.s)
      [] v.t = "bool" -> IF v.b THEN Whole(1) ELSE Whole(0)
      [] v.t = "null" -> Whole(0)
      [] v.t = "undefined" -> NaN
      [] v.t = "obj" -> NaN

\* Number.isInteger(v)
IsInteger(v) == v.t = "num" /\ v.n % 10 = 0

\* v < 0, where null compares as 0 and NaN compares false
LessThanZero(v) == v.t = "num" /\ v.n < 0

\* Math.floor(v) of a number
MathFloor(v) == IF v.t = "num" THEN Num(10 * (v.n \div 10)) ELSE v

\* The value of property name of object v (undefined when v has no such
\* property or is no object): v?.name
RECURSIVE Member(_, _)
Member(m, name) == IF m = <<>> THEN Undef
                   ELSE IF Head(m)[1] = name THEN Head(m)[2]
                   ELSE Member(Tail(m), name)
Prop(v, name) == IF v.t = "obj" THEN Member(v.m, name) ELSE Undef

(***************************************************************************)
(* The state: the three tables of the store, the store's clock, and each   *)
(* caller's call in progress.                                              *)
(***************************************************************************)
VARIABLES settings, models_config, worker_keys, now, calls

vars == <<settings, models_config, worker_keys, now, calls>>
tables == <<settings, models_config, worker_keys>>

Procs == {"p1", "p2"}
SettingKeys == {"k1", "category_quotas", "github_config"}
ModelIds == {"m1", "m2"}
ApiKeys == {"K1", "K2"}

\* The largest value of the store's clock (CURRENT_TIMESTAMP).
MaxClock == 1

NoRow == [present |-> FALSE]

NoCall == [op |-> "none", a |-> [none |-> TRUE], pc |-> "idle", result |-> "none",
           stmts |-> 0, outcome |-> "none", syncs |-> 0, synced |-> FALSE,
           changed |-> FALSE, value |-> Undef]

Init ==
    /\ settings = [k \in SettingKeys |-> NoRow]
    /\ models_config = [m \in ModelIds |-> NoRow]
    /\ worker_keys = [k \in ApiKeys |-> NoRow]
    /\ now = 0
    /\ calls = [p \in Procs |-> NoCall]

\* A caller is free to start a call when it has none in progress.
Free(p) == calls[p].pc \in {"idle", "done"}

\* Whether this step changes a table.
Changes == tables' # tables

\* The call runs up to its first await: the storage statement is issued.
Issue(p, op, a) ==
    calls' = [calls EXCEPT ![p] =
                [NoCall EXCEPT !.op = op, !.a = a, !.pc = "stmt",
                               !.changed = Changes]]

\* The call throws before any await.
Reject(p, op, a) ==
    calls' = [calls EXCEPT ![p] =
                [NoCall EXCEPT !.op = op, !.a = a, !.pc = "done",
                               !.result = "ValidationError",
                               !.changed = Changes]]

\* The awaited storage statement has been executed with this outcome
\* ("applied", "zero" rows, "constraint" or "fault") and the call goes on
\* to pc (with result, when it ends here).
AfterStmt(p, outcome, pc, result) ==
    calls' = [calls EXCEPT ![p].stmts = @ + 1, ![p].outcome = outcome,
                           ![p].pc = pc, ![p].result = result,
                           ![p].changed = @ \/ Changes]

\* The awaited syncToGitHub() has returned (ok) or thrown.
AfterSync(p, ok, result) ==
    calls' = [calls EXCEPT ![p].syncs = @ + 1, ![p].synced = ok,
                           ![p].pc = "done", ![p].result = result,
                           ![p].changed = @ \/ Changes]

\* The errors db.run can fail with, whatever the statement: the driver's
\* error object, of which the code only reads .code.
StorageFaults == {[kind |-> "StorageError", code |-> "SQLITE_IOERR"]}
UniqueViolation == [kind |-> "StorageError", code |-> "SQLITE_CONSTRAINT"]

\* The errors syncToGitHub can fail with.
SyncErrors == {[kind |-> "SyncError", code |-> "SYNC_FAILED"]}

\* The call in progress of p, at its storage statement or at its sync.
AtStmt(p, ops) == calls[p].pc = "stmt" /\ calls[p].op \in ops
AtSync(p, ops) == calls[p].pc = "sync" /\ calls[p].op \in ops

\* A variant of AwaitSync that swallows the collaborator's error.
AwaitSync_Swallow(p) ==
    /\ UNCHANGED <<tables, now>>
    /\ \/ AfterSync(p, TRUE, "ok")
       \/ \E err \in SyncErrors : AfterSync(p, FALSE, "ok")

\* await syncToGitHub() outside any try block: the call ends, with the
\* collaborator's error when it throws.
AwaitSync(p) ==
    /\ UNCHANGED <<tables, now>>
    /\ \/ AfterSync(p, TRUE, "ok")
       \/ \E err \in SyncErrors : AfterSync(p, FALSE, err.kind)

(***************************************************************************)
(* Settings                                                                *)
(***************************************************************************)
\* A variant of getSetting that takes a stored null for an absent row.
getSetting_NullIsAbsent(key, defaultValue) ==
    LET row == settings[key]
    IN  IF ~row.present THEN defaultValue
        ELSE IF JsonParse(row.value).ok
             THEN IF JsonParse(row.value).v = Null THEN defaultValue
                  ELSE JsonParse(row.value).v
        ELSE Str(row.value)

\* getSetting(key, defaultValue), on the row the SELECT returns.
getSetting(key, defaultValue) ==
    LET row == settings[key]
    IN  IF ~row.present THEN defaultValue
        ELSE IF JsonParse(row.value).ok THEN JsonParse(row.value).v
        ELSE Str(row.value)

\* A variant of ValueToStore that JSON-encodes strings as well.
ValueToStore_EncodeStrings(value) ==
    IF (TypeOf(value) = "object" /\ value # Null) \/ TypeOf(value) = "string"
    THEN JsonStringify(value)
    ELSE StringOf(value)

\* valueToStore of setSetting
ValueToStore(value) ==
    IF TypeOf(value) = "object" /\ value # Null
    THEN JsonStringify(value)
    ELSE StringOf(value)

\* setSetting up to its await of runDb (also reached from setCategoryQuotas
\* and setGitHubConfig, as op says).
SetSettingIssue(p, op, key, value, skipSync, args) ==
    Issue(p, op, [key |-> key, value |-> value, skipSync |-> skipSync,
                  valueToStore |-> ValueToStore(value), args |-> args])

setSetting(p, key, value, skipSync) ==
    /\ Free(p)
    /\ UNCHANGED <<tables, now>>
    /\ SetSettingIssue(p, "setSetting", key, value, skipSync, <<key, value, skipSync>>)

SettingOps == {"setSetting", "setCategoryQuotas", "setGitHubConfig"}

\* A variant of setSetting_runDb whose failing statement has written the
\* row all the same.
setSetting_runDb_FaultAfterWrite(p) ==
    /\ AtStmt(p, SettingOps)
    /\ UNCHANGED <<models_config, worker_keys, now>>
    /\ settings' = [settings EXCEPT ![calls[p].a.key] =
                      [present |-> TRUE, value |-> calls[p].a.valueToStore]]
    /\ \/ \E err \in StorageFaults : AfterStmt(p, "fault", "done", err.kind)
       \/ IF calls[p].a.skipSync
          THEN AfterStmt(p, "applied", "done", "ok")
          ELSE AfterStmt(p, "applied", "sync", "none")

\* INSERT OR REPLACE INTO settings, then the test of skipSync.
setSetting_runDb(p) ==
    /\ AtStmt(p, SettingOps)
    /\ UNCHANGED <<models_config, worker_keys, now>>
    /\ \/ /\ UNCHANGED settings
          /\ \E err \in StorageFaults : AfterStmt(p, "fault", "done", err.kind)
       \/ /\ settings' = [settings EXCEPT ![calls[p].a.key] =
                            [present |-> TRUE, value |-> calls[p].a.valueToStore]]
          /\ IF calls[p].a.skipSync
             THEN AfterStmt(p, "applied", "done", "ok")
             ELSE AfterStmt(p, "applied", "sync", "none")

setSetting_sync(p) ==
    /\ AtSync(p, SettingOps)
    /\ AwaitSync(p)

(***************************************************************************)
(* Model configuration                                                     *)
(***************************************************************************)
\* getModelsConfig(): row.daily_quota ?? undefined
NullToUndef(v) == IF v = Null THEN Undef ELSE v

getModelsConfig ==
    [m \in {x \in ModelIds : models_config[x].present} |->
        [category |-> models_config[m].category,
         dailyQuota |-> NullToUndef(models_config[m].daily_quota),
         individualQuota |-> NullToUndef(models_config[m].individual_quota)]]

\* dailyQuotaDb, individualQuotaDb
QuotaDb(q) == IF q = Undef \/ q = Null THEN Null ELSE ToNumber(q)

\* A variant of DailyQuotaRejected whose test of the sign is under the test
\* of the category as well.
DailyQuotaRejected_CustomOnly(category, dailyQuotaDb) ==
    /\ category = "Custom"
    /\ dailyQuotaDb # Null
    /\ (~IsInteger(dailyQuotaDb) \/ LessThanZero(dailyQuotaDb))

\* The two tests of setModelConfig that throw.
DailyQuotaRejected(category, dailyQuotaDb) ==
    \/ (category = "Custom" /\ dailyQuotaDb # Null /\ ~IsInteger(dailyQuotaDb))
    \/ LessThanZero(dailyQuotaDb)

IndividualQuotaRejected(category, individualQuotaDb) ==
    \/ ((category = "Pro" \/ category = "Flash") /\ individualQuotaDb # Null
        /\ ~IsInteger(individualQuotaDb))
    \/ LessThanZero(individualQuotaDb)

setModelConfig(p, modelId, category, dailyQuota, individualQuota) ==
    LET dailyQuotaDb == QuotaDb(dailyQuota)
        individualQuotaDb == QuotaDb(individualQuota)
        a == [modelId |-> modelId, category |-> category,
              dailyQuota |-> dailyQuota, individualQuota |-> individualQuota,
              dailyQuotaDb |-> dailyQuotaDb, individualQuotaDb |-> individualQuotaDb]
    IN  /\ Free(p)
        /\ UNCHANGED <<tables, now>>
        /\ IF DailyQuotaRejected(category, dailyQuotaDb)
              \/ IndividualQuotaRejected(category, individualQuotaDb)
           THEN Reject(p, "setModelConfig", a)
           ELSE Issue(p, "setModelConfig", a)

\* A variant of ModelRow that patches the row: a null quota keeps the
\* quota of the row it replaces.
ModelRow_Patch(a) ==
    LET old == models_config[a.modelId]
    IN  [present |-> TRUE, category |-> a.category,
         daily_quota |-> IF a.dailyQuotaDb = Null /\ old.present
                         THEN old.daily_quota ELSE a.dailyQuotaDb,
         individual_quota |-> IF a.individualQuotaDb = Null /\ old.present
                              THEN old.individual_quota ELSE a.individualQuotaDb]

\* The row INSERT OR REPLACE INTO models_config writes.
ModelRow(a) == [present |-> TRUE, category |-> a.category,
                daily_quota |-> a.dailyQuotaDb,
                individual_quota |-> a.individualQuotaDb]

setModelConfig_runDb(p) ==
    /\ AtStmt(p, {"setModelConfig"})
    /\ UNCHANGED <<settings, worker_keys, now>>
    /\ \/ /\ UNCHANGED models_config
          /\ \E err \in StorageFaults : AfterStmt(p, "fault", "done", err.kind)
       \/ /\ models_config' = [models_config EXCEPT ![calls[p].a.modelId] =
                                 ModelRow(calls[p].a)]
          /\ AfterStmt(p, "applied", "sync", "none")

setModelConfig_sync(p) ==
    /\ AtSync(p, {"setModelConfig"})
    /\ AwaitSync(p)

deleteModelConfig(p, modelId) ==
    /\ Free(p)
    /\ UNCHANGED <<tables, now>>
    /\ Issue(p, "deleteModelConfig", [modelId |-> modelId])

\* A variant of RowsAffected that reports a row whether or not one matched.
RowsAffected_One(table, id) == 1

\* result.changes of a DELETE or UPDATE ... WHERE <primary key> = id
RowsAffected(table, id) == IF table[id].present THEN 1 ELSE 0

\* DELETE FROM models_config, then the test of result.changes.
deleteModelConfig_runDb(p) ==
    /\ AtStmt(p, {"deleteModelConfig"})
    /\ UNCHANGED <<settings, worker_keys, now>>
    /\ \/ /\ UNCHANGED models_config
          /\ \E err \in StorageFaults : AfterStmt(p, "fault", "done", err.kind)
       \/ /\ models_config' = [models_config EXCEPT ![calls[p].a.modelId] = NoRow]
          /\ IF RowsAffected(models_config, calls[p].a.modelId) = 0
             THEN AfterStmt(p, "zero", "done", "NotFound")
             ELSE AfterStmt(p, "applied", "sync", "none")

deleteModelConfig_sync(p) ==
    /\ AtSync(p, {"deleteModelConfig"})
    /\ AwaitSync(p)

(***************************************************************************)
(* Category quotas                                                         *)
(***************************************************************************)
DefaultProQuota == 50
DefaultFlashQuota == 1500

ProQuotaName == <<"p", "r", "o", "Q", "u", "o", "t", "a">>
FlashQuotaName == <<"f", "l", "a", "s", "h", "Q", "u", "o", "t", "a">>

CategoryQuotasObj(proQuota, flashQuota) ==
    Obj(<< <<ProQuotaName, proQuota>>, <<FlashQuotaName, flashQuota>> >>)

getCategoryQuotas ==
    LET quotas == getSetting("category_quotas",
                             CategoryQuotasObj(Whole(DefaultProQuota),
                                               Whole(DefaultFlashQuota)))
        pro == Prop(quotas, ProQuotaName)
        flash == Prop(quotas, FlashQuotaName)
    IN  [proQuota |-> IF TypeOf(pro) = "number" THEN pro ELSE Whole(DefaultProQuota),
         flashQuota |-> IF TypeOf(flash) = "number" THEN flash
                        ELSE Whole(DefaultFlashQuota)]

\* The test of setCategoryQuotas that throws.
CategoryQuotasRejected(proQuota, flashQuota) ==
    \/ TypeOf(proQuota) # "number"
    \/ TypeOf(flashQuota) # "number"
    \/ LessThanZero(proQuota)
    \/ LessThanZero(flashQuota)

\* A variant of setCategoryQuotas that writes the setting before it tests
\* its arguments.
setCategoryQuotas_WriteThenValidate(p, proQuota, flashQuota) ==
    LET value == CategoryQuotasObj(MathFloor(proQuota), MathFloor(flashQuota))
        a == [key |-> "category_quotas", value |-> value, skipSync |-> FALSE,
              valueToStore |-> ValueToStore(value),
              args |-> <<proQuota, flashQuota>>]
    IN  /\ Free(p)
        /\ settings' = [settings EXCEPT !["category_quotas"] =
                          [present |-> TRUE, value |-> a.valueToStore]]
        /\ UNCHANGED <<models_config, worker_keys, now>>
        /\ calls' = [calls EXCEPT ![p] =
                       IF CategoryQuotasRejected(proQuota, flashQuota)
                       THEN [NoCall EXCEPT !.op = "setCategoryQuotas", !.a = a,
                                           !.pc = "done", !.stmts = 1,
                                           !.outcome = "applied",
                                           !.result = "ValidationError",
                                           !.changed = Changes]
                       ELSE [NoCall EXCEPT !.op = "setCategoryQuotas", !.a = a,
                                           !.pc = "sync", !.stmts = 1,
                                           !.outcome = "applied",
                                           !.changed = Changes]]

setCategoryQuotas(p, proQuota, flashQuota) ==
    /\ Free(p)
    /\ UNCHANGED <<tables, now>>
    /\ IF CategoryQuotasRejected(proQuota, flashQuota)
       THEN Reject(p, "setCategoryQuotas", [args |-> <<proQuota, flashQuota>>])
       ELSE SetSettingIssue(p, "setCategoryQuotas", "category_quotas",
                            CategoryQuotasObj(MathFloor(proQuota),
                                              MathFloor(flashQuota)),
                            FALSE, <<proQuota, flashQuota>>)

(***************************************************************************)
(* Worker keys                                                             *)
(***************************************************************************)
\* A variant of getWorkerKeySafetySetting whose default for an absent key
\* is false.
getWorkerKeySafetySetting_DefaultOff(apiKey) ==
    LET row == worker_keys[apiKey]
    IN  IF row.present THEN row.safety_enabled = 1 ELSE FALSE

getWorkerKeySafetySetting(apiKey) ==
    LET row == worker_keys[apiKey]
    IN  IF row.present THEN row.safety_enabled = 1 ELSE TRUE

addWorkerKey(p, apiKey, description) ==
    /\ Free(p)
    /\ UNCHANGED <<tables, now>>
    /\ Issue(p, "addWorkerKey", [apiKey |-> apiKey, description |-> description])

\* A variant of AddWorkerKeyCatch that reports every error as a conflict.
AddWorkerKeyCatch_AlwaysConflict(err) == "Conflict"

\* The catch block of addWorkerKey: what the call fails with.
AddWorkerKeyCatch(err) ==
    IF err.code = "SQLITE_CONSTRAINT" THEN "Conflict" ELSE err.kind

\* A variant of addWorkerKey_runDb whose statement replaces the row of an
\* existing key (INSERT OR REPLACE).
addWorkerKey_runDb_Replace(p) ==
    /\ AtStmt(p, {"addWorkerKey"})
    /\ UNCHANGED <<settings, models_config, now>>
    /\ \/ /\ UNCHANGED worker_keys
          /\ \E err \in StorageFaults :
                AfterStmt(p, "fault", "done", AddWorkerKeyCatch(err))
       \/ /\ worker_keys' = [worker_keys EXCEPT ![calls[p].a.apiKey] =
                               [present |-> TRUE,
                                description |-> calls[p].a.description,
                                safety_enabled |-> 1,
                                created_at |-> now]]
          /\ AfterStmt(p, "applied", "sync", "none")

\* INSERT INTO worker_keys: the primary key rejects a second row.
addWorkerKey_runDb(p) ==
    /\ AtStmt(p, {"addWorkerKey"})
    /\ UNCHANGED <<settings, models_config, now>>
    /\ \/ /\ UNCHANGED worker_keys
          /\ \E err \in StorageFaults :
                AfterStmt(p, "fault", "done", AddWorkerKeyCatch(err))
       \/ /\ worker_keys[calls[p].a.apiKey].present
          /\ UNCHANGED worker_keys
          /\ AfterStmt(p, "constraint", "done", AddWorkerKeyCatch(UniqueViolation))
       \/ /\ ~worker_keys[calls[p].a.apiKey].present
          /\ worker_keys' = [worker_keys EXCEPT ![calls[p].a.apiKey] =
                               [present |-> TRUE,
                                description |-> calls[p].a.description,
                                safety_enabled |-> 1,
                                created_at |-> now]]
          /\ AfterStmt(p, "applied", "sync", "none")

\* await syncToGitHub() inside the try block of addWorkerKey.
addWorkerKey_sync(p) ==
    /\ AtSync(p, {"addWorkerKey"})
    /\ UNCHANGED <<tables, now>>
    /\ \/ AfterSync(p, TRUE, "ok")
       \/ \E err \in SyncErrors : AfterSync(p, FALSE, AddWorkerKeyCatch(err))

updateWorkerKeySafety(p, apiKey, safetyEnabled) ==
    /\ Free(p)
    /\ UNCHANGED <<tables, now>>
    /\ Issue(p, "updateWorkerKeySafety",
             [apiKey |-> apiKey, safetyEnabled |-> safetyEnabled])

\* A variant of updateWorkerKeySafety_runDb whose UPDATE also stamps the
\* row with the current time.
updateWorkerKeySafety_runDb_Touch(p) ==
    /\ AtStmt(p, {"updateWorkerKeySafety"})
    /\ UNCHANGED <<settings, models_config, now>>
    /\ \/ /\ UNCHANGED worker_keys
          /\ \E err \in StorageFaults : AfterStmt(p, "fault", "done", err.kind)
       \/ /\ worker_keys' =
                IF worker_keys[calls[p].a.apiKey].present
                THEN [worker_keys EXCEPT ![calls[p].a.apiKey].safety_enabled =
                         IF calls[p].a.safetyEnabled THEN 1 ELSE 0,
                                         ![calls[p].a.apiKey].created_at = now]
                ELSE worker_keys
          /\ IF RowsAffected(worker_keys, calls[p].a.apiKey) = 0
             THEN AfterStmt(p, "zero", "done", "NotFound")
             ELSE AfterStmt(p, "applied", "sync", "none")

\* UPDATE worker_keys SET safety_enabled, then the test of result.changes.
updateWorkerKeySafety_runDb(p) ==
    /\ AtStmt(p, {"updateWorkerKeySafety"})
    /\ UNCHANGED <<settings, models_config, now>>
    /\ \/ /\ UNCHANGED worker_keys
          /\ \E err \in StorageFaults : AfterStmt(p, "fault", "done", err.kind)
       \/ /\ worker_keys' =
                IF worker_keys[calls[p].a.apiKey].present
                THEN [worker_keys EXCEPT ![calls[p].a.apiKey].safety_enabled =
                         IF calls[p].a.safetyEnabled THEN 1 ELSE 0]
                ELSE worker_keys
          /\ IF RowsAffected(worker_keys, calls[p].a.apiKey) = 0
             THEN AfterStmt(p, "zero", "done", "NotFound")
             ELSE AfterStmt(p, "applied", "sync", "none")

updateWorkerKeySafety_sync(p) ==
    /\ AtSync(p, {"updateWorkerKeySafety"})
    /\ AwaitSync(p)

deleteWorkerKey(p, apiKey) ==
    /\ Free(p)
    /\ UNCHANGED <<tables, now>>
    /\ Issue(p, "deleteWorkerKey", [apiKey |-> apiKey])

\* DELETE FROM worker_keys, then the test of result.changes; the function
\* ends there.
deleteWorkerKey_runDb(p) ==
    /\ AtStmt(p, {"deleteWorkerKey"})
    /\ UNCHANGED <<settings, models_config, now>>
    /\ \/ /\ UNCHANGED worker_keys
          /\ \E err \in StorageFaults : AfterStmt(p, "fault", "done", err.kind)
       \/ /\ worker_keys' = [worker_keys EXCEPT ![calls[p].a.apiKey] = NoRow]
          /\ IF RowsAffected(worker_keys, calls[p].a.apiKey) = 0
             THEN AfterStmt(p, "zero", "done", "NotFound")
             ELSE AfterStmt(p, "applied", "done", "ok")

\* The store's clock advances.
Tick ==
    /\ now < MaxClock
    /\ now' = now + 1
    /\ UNCHANGED <<tables, calls>>

(***************************************************************************)
(* GitHub configuration                                                    *)
(***************************************************************************)
GitHubConfigObj(repo, token, dbPath, encryptKey) ==
    Obj(<< <<<<"r", "e", "p", "o">>, repo>>,
           <<<<"t", "o", "k", "e", "n">>, token>>,
           <<<<"d", "b", "P", "a", "t", "h">>, dbPath>>,
           <<<<"e", "n", "c", "r", "y", "p", "t", "K", "e", "y">>, encryptKey>> >>)

DefaultDbPath == <<".", "/", "d", "a", "t", "a", "b", "a", "s", "e", ".", "d", "b">>

getGitHubConfig ==
    getSetting("github_config",
               GitHubConfigObj(Str(<<>>), Str(<<>>), Str(DefaultDbPath), Null))

setGitHubConfig(p, repo, token, dbPath, encryptKey) ==
    /\ Free(p)
    /\ UNCHANGED <<tables, now>>
    /\ SetSettingIssue(p, "setGitHubConfig", "github_config",
                       GitHubConfigObj(repo, token, dbPath, encryptKey), FALSE,
                       <<repo, token, dbPath, encryptKey>>)

(***************************************************************************)
(* Spec: one caller, every mutating operation, on small input sets.        *)
(***************************************************************************)
S_abc == <<"a", "b", "c">>
S_d == <<"d">>
S_x == <<"x">>

MainSettingCalls ==
    {"k1"} \X {Str(S_abc)} \X BOOLEAN

MainCategoryQuotas == {Whole(5), Whole(-1), Str(S_x)} \X {Whole(10)}

MainGitHubConfigs ==
    {<<Str(<<"u", "/", "r">>), Str(<<"t">>), Str(DefaultDbPath), Null>>}

MainModelCalls ==
    ({"m1"} \X {"Pro", "Custom"} \X {Null, Whole(2), Num(15), Whole(-1)} \X {Null})
    \cup {<<"m2", "Flash", Null, Whole(3)>>}

MainAddCalls == {<<"K1", <<>>>>, <<"K1", S_d>>, <<"K2", <<>>>>}

MainUpdateCalls == {<<"K1", TRUE>>, <<"K1", FALSE>>, <<"K2", FALSE>>}

Next ==
    \E p \in {"p1"} :
        \/ \E c \in MainSettingCalls : setSetting(p, c[1], c[2], c[3])
        \/ setSetting_runDb(p)
        \/ setSetting_sync(p)
        \/ \E c \in MainModelCalls : setModelConfig(p, c[1], c[2], c[3], c[4])
        \/ setModelConfig_runDb(p)
        \/ setModelConfig_sync(p)
        \/ \E m \in ModelIds : deleteModelConfig(p, m)
        \/ deleteModelConfig_runDb(p)
        \/ deleteModelConfig_sync(p)
        \/ \E c \in MainCategoryQuotas : setCategoryQuotas(p, c[1], c[2])
        \/ \E c \in MainAddCalls : addWorkerKey(p, c[1], c[2])
        \/ addWorkerKey_runDb(p)
        \/ addWorkerKey_sync(p)
        \/ \E c \in MainUpdateCalls : updateWorkerKeySafety(p, c[1], c[2])
        \/ updateWorkerKeySafety_runDb(p)
        \/ updateWorkerKeySafety_sync(p)
        \/ \E k \in ApiKeys : deleteWorkerKey(p, k)
        \/ deleteWorkerKey_runDb(p)
        \/ \E c \in MainGitHubConfigs : setGitHubConfig(p, c[1], c[2], c[3], c[4])

Spec == Init /\ [][Next]_vars

(***************************************************************************)
(* Claims checked under Spec                                               *)
(***************************************************************************)
Returned(p) == calls[p].pc = "done"

\* The write of p's call, as the tables show it.
WriteVisible(p) ==
    LET c == calls[p]
    IN  CASE c.op \in SettingOps ->
               settings[c.a.key] = [present |-> TRUE, value |-> c.a.valueToStore]
          [] c.op = "setModelConfig" ->
               /\ models_config[c.a.modelId].present
               /\ models_config[c.a.modelId].category = c.a.category
               /\ models_config[c.a.modelId].daily_quota = QuotaDb(c.a.dailyQuota)
               /\ models_config[c.a.modelId].individual_quota
                      = QuotaDb(c.a.individualQuota)
          [] c.op = "deleteModelConfig" -> ~models_config[c.a.modelId].present
          [] c.op = "addWorkerKey" ->
               /\ worker_keys[c.a.apiKey].present
               /\ worker_keys[c.a.apiKey].description = c.a.description
               /\ worker_keys[c.a.apiKey].safety_enabled = 1
          [] c.op = "updateWorkerKeySafety" ->
               /\ worker_keys[c.a.apiKey].present
               /\ (worker_keys[c.a.apiKey].safety_enabled = 1) = c.a.safetyEnabled
          [] c.op = "deleteWorkerKey" -> ~worker_keys[c.a.apiKey].present
          [] OTHER -> FALSE

\* setSetting called with skipSync = true
SkipsSync(p) == calls[p].op = "setSetting" /\ calls[p].a.skipSync

\* C1 (as stated): every mutating operation that returns success has
\* invoked the Sync Trigger, once and after its write, except setSetting
\* called with skipSync = true, which never invokes it.
C1_EverySuccessSynced ==
    \A p \in Procs :
        /\ (Returned(p) /\ calls[p].result = "ok" /\ ~SkipsSync(p))
              => (calls[p].syncs = 1 /\ calls[p].outcome = "applied")
        /\ (calls[p].op = "setSetting" /\ calls[p].a.skipSync)
              => calls[p].syncs = 0

\* C2 (as stated): a mutating operation that has returned either succeeded
\* with the write applied and the sync completed, or failed with the store
\* content as it was before the call.  (A setSetting called with
\* skipSync = true is not held to "the sync completed".)
C2_NoPartialSuccess ==
    \A p \in Procs :
        Returned(p) =>
            \/ /\ calls[p].result = "ok"
               /\ WriteVisible(p)
               /\ calls[p].synced \/ SkipsSync(p)
            \/ /\ calls[p].result # "ok"
               /\ ~calls[p].changed

\* C2 (amended): a mutating operation that has returned is in one of three
\* cases: success, with the write applied and the sync completed, or not
\* invoked at all for setSetting with skipSync = true and for
\* deleteWorkerKey; a failure raised before or by the storage statement
\* (validation, NotFound, Conflict, storage failure), with the store as it
\* was before the call and no sync; a sync failure, with the write still
\* applied to the store.
C2_Outcomes ==
    \A p \in Procs :
        Returned(p) =>
            \/ /\ calls[p].result = "ok"
               /\ WriteVisible(p)
               /\ IF SkipsSync(p) \/ calls[p].op = "deleteWorkerKey"
                  THEN calls[p].syncs = 0
                  ELSE calls[p].synced
            \/ /\ calls[p].result \in {"ValidationError", "NotFound", "Conflict",
                                       "StorageError"}
               /\ ~calls[p].changed
               /\ calls[p].syncs = 0
            \/ /\ calls[p].result = "SyncError"
               /\ calls[p].syncs = 1
               /\ ~calls[p].synced
               /\ WriteVisible(p)

\* C2 witness: a call has failed at its sync with its write in the store.
C2_Witness ==
    \E p \in Procs :
        /\ Returned(p)
        /\ calls[p].result = "SyncError"
        /\ calls[p].changed
        /\ WriteVisible(p)

\* C3: in every call that syncs, the Sync Trigger is invoked at most once
\* and only after the one storage statement has been applied; the call
\* does not return success before the sync has completed; a failed sync
\* makes the call return a failure.
C3_WriteThenSync ==
    \A p \in Procs :
        /\ calls[p].syncs <= 1
        /\ calls[p].stmts <= 1
        /\ (calls[p].pc = "sync" \/ calls[p].syncs = 1)
              => (calls[p].stmts = 1 /\ calls[p].outcome = "applied")
        /\ calls[p].pc = "sync" => (calls[p].syncs = 0 /\ WriteVisible(p))
        /\ calls[p].syncs = 1 => Returned(p)
        /\ (Returned(p) /\ calls[p].result = "ok" /\ ~SkipsSync(p)
            /\ calls[p].op # "deleteWorkerKey") => calls[p].synced
        /\ (calls[p].syncs = 1 /\ ~calls[p].synced)
              => calls[p].result \notin {"ok", "none"}

\* C3 witness: a call has returned a failure because its sync failed,
\* after its write.
C3_Witness ==
    \E p \in Procs :
        /\ Returned(p)
        /\ calls[p].op = "setModelConfig"
        /\ calls[p].syncs = 1
        /\ ~calls[p].synced
        /\ calls[p].result = "SyncError"
        /\ calls[p].outcome = "applied"

\* C5: a call of setCategoryQuotas with an argument that is not numeric or
\* is below 0, and a call of setModelConfig with a quota its validation
\* rejects, fails with a validation error, and a call that has failed with
\* a validation error has executed no storage statement, has not invoked
\* the Sync Trigger and has left the store as it was.
C5_ValidationBeforeStorage ==
    \A p \in Procs :
        LET c == calls[p]
        IN  /\ c.result = "ValidationError"
                 => /\ c.op \in {"setCategoryQuotas", "setModelConfig"}
                    /\ Returned(p)
                    /\ c.stmts = 0
                    /\ c.outcome = "none"
                    /\ c.syncs = 0
                    /\ ~c.changed
            /\ (c.op = "setCategoryQuotas"
                /\ \E i \in 1..2 : \/ c.a.args[i].t \notin {"num", "nan"}
                                   \/ (c.a.args[i].t = "num" /\ c.a.args[i].n < 0))
                 => c.result = "ValidationError"
            /\ (c.op = "setModelConfig"
                /\ (\/ DailyQuotaRejected(c.a.category, QuotaDb(c.a.dailyQuota))
                    \/ IndividualQuotaRejected(c.a.category,
                                               QuotaDb(c.a.individualQuota))))
                 => c.result = "ValidationError"

\* C5 witness: setCategoryQuotas has failed with a validation error while
\* the store holds category quotas written earlier.
C5_Witness ==
    \E p \in Procs :
        /\ calls[p].op = "setCategoryQuotas"
        /\ calls[p].result = "ValidationError"
        /\ settings["category_quotas"].present

\* The step in which p's DELETE or UPDATE by primary key is executed: with
\* no row of that id, the call ends with NotFound, no table changes and no
\* sync follows; with such a row, that row and no other is removed or has
\* its safety flag set.
C8_Step(p) ==
    LET c == calls[p]
        d == calls'[p]
    IN  (/\ c.pc = "stmt"
         /\ c.op \in {"deleteModelConfig", "updateWorkerKeySafety", "deleteWorkerKey"}
         /\ d.stmts = 1
         /\ d.outcome # "fault")
        => IF c.op = "deleteModelConfig"
           THEN /\ settings' = settings
                /\ worker_keys' = worker_keys
                /\ \A m \in ModelIds \ {c.a.modelId} :
                       models_config'[m] = models_config[m]
                /\ IF models_config[c.a.modelId].present
                   THEN /\ ~models_config'[c.a.modelId].present
                        /\ d.result # "NotFound"
                   ELSE /\ models_config' = models_config
                        /\ d.result = "NotFound"
                        /\ d.pc = "done"
                        /\ d.syncs = 0
           ELSE /\ settings' = settings
                /\ models_config' = models_config
                /\ \A k \in ApiKeys \ {c.a.apiKey} :
                       worker_keys'[k] = worker_keys[k]
                /\ IF worker_keys[c.a.apiKey].present
                   THEN /\ d.result # "NotFound"
                        /\ IF c.op = "deleteWorkerKey"
                           THEN ~worker_keys'[c.a.apiKey].present
                           ELSE worker_keys'[c.a.apiKey] =
                                   [worker_keys[c.a.apiKey] EXCEPT
                                      !.safety_enabled =
                                         IF c.a.safetyEnabled THEN 1 ELSE 0]
                   ELSE /\ worker_keys' = worker_keys
                        /\ d.result = "NotFound"
                        /\ d.pc = "done"
                        /\ d.syncs = 0

\* C8: deleteModelConfig, updateWorkerKeySafety and deleteWorkerKey on an
\* absent id fail with NotFound, change no table and do not invoke the
\* Sync Trigger; on a present id they remove or update that row only.
C8_NotFoundOrThatRowOnly == [][\A p \in Procs : C8_Step(p)]_vars

\* C8 witness: deleteWorkerKey of an absent key has failed with NotFound
\* while the other key and a model are in the store.
C8_Witness ==
    \E p \in Procs :
        /\ Returned(p)
        /\ calls[p].op = "deleteWorkerKey"
        /\ calls[p].result = "NotFound"
        /\ ~calls[p].changed
        /\ \E k \in ApiKeys : worker_keys[k].present
        /\ \E m \in ModelIds : models_config[m].present

(***************************************************************************)
(* SpecWorkers: one caller on the worker key registry, both keys, with     *)
(* the store's clock advancing.                                            *)
(***************************************************************************)
NextWorkers ==
    \/ Tick
    \/ \E p \in {"p1"} :
        \/ \E k \in ApiKeys, description \in {<<>>, S_d} :
              addWorkerKey(p, k, description)
        \/ addWorkerKey_runDb(p)
        \/ addWorkerKey_sync(p)
        \/ \E k \in ApiKeys, safetyEnabled \in BOOLEAN :
              updateWorkerKeySafety(p, k, safetyEnabled)
        \/ updateWorkerKeySafety_runDb(p)
        \/ updateWorkerKeySafety_sync(p)
        \/ \E k \in ApiKeys : deleteWorkerKey(p, k)
        \/ deleteWorkerKey_runDb(p)

SpecWorkers == Init /\ [][NextWorkers]_vars

\* The steps of p's addWorkerKey: at the INSERT, the call fails with
\* Conflict exactly when a row of the key exists and the store executes the
\* statement (it raises no other error); the existing row is then as it
\* was, and the call ends without a sync.  Another storage error ends the
\* call with that error, and a failed sync with the sync's error.
C4_Step(p) ==
    LET c == calls[p]
        d == calls'[p]
        existed == worker_keys[c.a.apiKey].present
    IN  /\ (c.pc = "stmt" /\ c.op = "addWorkerKey" /\ d.stmts = 1)
            => /\ (d.result = "Conflict") <=> (existed /\ d.outcome # "fault")
               /\ d.result = "Conflict"
                    => (worker_keys' = worker_keys /\ d.pc = "done" /\ d.syncs = 0)
               /\ existed => (/\ worker_keys'[c.a.apiKey] = worker_keys[c.a.apiKey]
                              /\ d.result \in {"Conflict", "StorageError"})
               /\ d.outcome = "fault"
                    => (d.result = "StorageError" /\ worker_keys' = worker_keys)
        /\ (c.pc = "sync" /\ c.op = "addWorkerKey" /\ d.syncs = 1)
            => /\ d.result \in {"ok", "SyncError"}
               /\ d.result = "ok" <=> d.synced

\* C4: addWorkerKey fails with Conflict if and only if a row of the key
\* exists when the INSERT is executed; the existing row is then unchanged,
\* still the one row of the key, and the Sync Trigger is not invoked.
\* Every other failure is raised as it is, never as Conflict.
C4_ConflictIffRowExists == [][\A p \in Procs : C4_Step(p)]_vars

\* C4 witness: addWorkerKey has failed with Conflict on a key whose row
\* keeps another description, a safety flag set to off and an earlier
\* creation time.
C4_Witness ==
    \E p \in Procs :
        /\ Returned(p)
        /\ calls[p].op = "addWorkerKey"
        /\ calls[p].result = "Conflict"
        /\ worker_keys[calls[p].a.apiKey].present
        /\ worker_keys[calls[p].a.apiKey].description # calls[p].a.description
        /\ worker_keys[calls[p].a.apiKey].safety_enabled = 0
        /\ worker_keys[calls[p].a.apiKey].created_at < now

\* p's statement of one of ops on key k is executed in this step.
RunsOn(p, ops, k) ==
    /\ AtStmt(p, ops)
    /\ calls[p].a.apiKey = k
    /\ calls'[p].stmts = 1

C9_Step(k) ==
    /\ \A p \in Procs :
          (RunsOn(p, {"updateWorkerKeySafety"}, k) /\ calls'[p].outcome = "applied")
             => getWorkerKeySafetySetting(k)' = calls[p].a.safetyEnabled
    /\ \A p \in Procs :
          (RunsOn(p, {"addWorkerKey"}, k) /\ calls'[p].outcome = "applied")
             => getWorkerKeySafetySetting(k)' = TRUE
    /\ ~worker_keys'[k].present => getWorkerKeySafetySetting(k)' = TRUE
    /\ getWorkerKeySafetySetting(k)' # getWorkerKeySafetySetting(k)
          => \E p \in Procs :
                RunsOn(p, {"updateWorkerKeySafety", "deleteWorkerKey"}, k)

\* C9: getWorkerKeySafetySetting(K) is true for a key that is not in the
\* registry and for a key addWorkerKey has just created; after
\* updateWorkerKeySafety(K, b) it is b, and no step other than the
\* statement of an updateWorkerKeySafety or a deleteWorkerKey on K changes
\* it.
C9_SafetySetting == [][\A k \in ApiKeys : C9_Step(k)]_vars

\* C9 witness: an addWorkerKey on one key has succeeded while the other
\* key, whose safety was set to off, still reads off.
C9_Witness ==
    \E p \in Procs :
        /\ Returned(p)
        /\ calls[p].op = "addWorkerKey"
        /\ calls[p].result = "ok"
        /\ \E k \in ApiKeys \ {calls[p].a.apiKey} :
              worker_keys[k].present /\ ~getWorkerKeySafetySetting(k)

(***************************************************************************)
(* SpecModels: one caller on the model quota registry, with quotas of      *)
(* every kind for m1 and two rows for m2.                                  *)
(***************************************************************************)
Categories == {"Pro", "Flash", "Custom", "Other"}

ModelCalls ==
    ({"m1"} \X Categories
            \X {Undef, Null, Whole(2), Num(15), Whole(-1), Str(S_x), Str(<<"7">>)}
            \X {Null, Whole(3), Num(15), Whole(-1)})
    \cup {<<"m2", "Flash", Whole(7), Null>>, <<"m2", "Custom", Null, Undef>>}

NextModels ==
    \E p \in {"p1"} :
        \/ \E c \in ModelCalls : setModelConfig(p, c[1], c[2], c[3], c[4])
        \/ setModelConfig_runDb(p)
        \/ setModelConfig_sync(p)
        \/ \E m \in ModelIds : deleteModelConfig(p, m)
        \/ deleteModelConfig_runDb(p)
        \/ deleteModelConfig_sync(p)

SpecModels == Init /\ [][NextModels]_vars

\* C6 (as stated): every stored ModelConfig row has a dailyQuota that is
\* null or a non-negative integer.
C6_DailyQuotaNullOrNatural ==
    \A m \in ModelIds :
        models_config[m].present
           => \/ models_config[m].daily_quota = Null
              \/ /\ models_config[m].daily_quota.t = "num"
                 /\ models_config[m].daily_quota.n % 10 = 0
                 /\ models_config[m].daily_quota.n >= 0

\* The entry getModelsConfig is to hold for the arguments a of a
\* setModelConfig: a null or undefined quota is absent, another is its
\* number.
ExpectedEntry(a) ==
    [category |-> a.category,
     dailyQuota |-> IF a.dailyQuota \in {Null, Undef} THEN Undef
                    ELSE ToNumber(a.dailyQuota),
     individualQuota |-> IF a.individualQuota \in {Null, Undef} THEN Undef
                         ELSE ToNumber(a.individualQuota)]

\* At the statement of p's setModelConfig the entry of modelId becomes the
\* expected one, whatever row was there, and the other entries stay.
C7_Step(p) ==
    LET c == calls[p]
    IN  (AtStmt(p, {"setModelConfig"}) /\ calls'[p].outcome = "applied")
        => /\ c.a.modelId \in DOMAIN getModelsConfig'
           /\ getModelsConfig'[c.a.modelId] = ExpectedEntry(c.a)
           /\ \A m \in ModelIds \ {c.a.modelId} :
                 /\ (m \in DOMAIN getModelsConfig') <=> (m \in DOMAIN getModelsConfig)
                 /\ m \in DOMAIN getModelsConfig
                       => getModelsConfig'[m] = getModelsConfig[m]

\* Once p's setModelConfig has returned success, getModelsConfig holds the
\* expected entry.
C7_Returned(p) ==
    (Returned(p) /\ calls[p].op = "setModelConfig" /\ calls[p].result = "ok")
       => /\ calls[p].a.modelId \in DOMAIN getModelsConfig
          /\ getModelsConfig[calls[p].a.modelId] = ExpectedEntry(calls[p].a)

\* C7: after a successful setModelConfig, getModelsConfig has one entry for
\* modelId, with the category and the normalized quotas of the call, a
\* null or undefined quota being absent; the row is replaced as a whole,
\* and the entries of the other modelIds are unchanged.
C7_SetThenGet == [][\A p \in Procs : C7_Step(p) /\ C7_Returned(p)']_vars

\* C7 witness: setModelConfig has succeeded with a null dailyQuota on a
\* modelId, the entry has no dailyQuota, and the other model is configured.
C7_Witness ==
    \E p \in Procs :
        /\ Returned(p)
        /\ calls[p].op = "setModelConfig"
        /\ calls[p].result = "ok"
        /\ calls[p].a.dailyQuota = Null
        /\ calls[p].a.individualQuota = Whole(3)
        /\ getModelsConfig[calls[p].a.modelId].dailyQuota = Undef
        /\ getModelsConfig[calls[p].a.modelId].individualQuota = Whole(3)
        /\ \E m \in ModelIds \ {calls[p].a.modelId} : m \in DOMAIN getModelsConfig

(***************************************************************************)
(* SpecSettings: one caller on the settings store, with values of every    *)
(* kind.                                                                   *)
(***************************************************************************)
S_123 == <<"1", "2", "3">>
S_true == <<"t", "r", "u", "e">>
S_null == <<"n", "u", "l", "l">>
S_a == <<"a">>
S_obj == <<"{", "\"", "a", "\"", ":", "1", "}">>

SettingValues ==
    {Str(S_abc), Str(S_123), Str(S_true), Str(S_null), Str(<<>>), Str(S_obj),
     Whole(7), Bool(TRUE), Null, Undef,
     Obj(<<>>),
     Obj(<< <<S_a, Whole(1)>>, <<S_d, Str(S_123)>> >>),
     Obj(<< <<S_a, Obj(<< <<S_d, Null>>, <<S_x, Bool(FALSE)>> >>)>> >>),
     Obj(<< <<S_a, NaN>> >>),
     Obj(<< <<S_a, Undef>> >>),
     CategoryQuotasObj(Whole(5), Str(S_x))}

SettingCalls ==
    ({"k1"} \X SettingValues \X BOOLEAN)
    \cup ({"category_quotas"} \X {Str(S_abc), Whole(7),
                                   CategoryQuotasObj(Whole(5), Str(S_x)),
                                   CategoryQuotasObj(Whole(-1), Whole(10))}
                              \X {FALSE})

SettingCategoryQuotas == {Whole(5), Num(15), Whole(-1), NaN, Str(S_x)} \X {Whole(10), Null}

NextSettings ==
    \E p \in {"p1"} :
        \/ \E c \in SettingCalls : setSetting(p, c[1], c[2], c[3])
        \/ setSetting_runDb(p)
        \/ setSetting_sync(p)
        \/ \E c \in SettingCategoryQuotas : setCategoryQuotas(p, c[1], c[2])

SpecSettings == Init /\ [][NextSettings]_vars

\* p's setSetting has written its value.
HasSet(p) == calls[p].op = "setSetting" /\ calls[p].outcome = "applied"

\* C10 (as stated): after setSetting(k, v), getSetting(k, null) is
\* deep-equal to v when v is a structured object, and is the string v when
\* v is a string.
C10_RoundTrip ==
    \A p \in Procs :
        (HasSet(p) /\ calls[p].a.value.t \in {"obj", "str"})
           => getSetting(calls[p].a.key, Null) = calls[p].a.value

\* An object whose members are, all the way down, strings, finite numbers,
\* booleans, null or such objects.
RECURSIVE JsonSafe(_)
JsonSafe(v) ==
    \/ v.t \in {"str", "num", "bool", "null"}
    \/ /\ v.t = "obj"
       /\ \A i \in 1..Len(v.m) : JsonSafe(v.m[i][2])

\* C10 (amended): after setSetting(k, v), getSetting(k, null) is deep-equal
\* to v when v is a plain object whose members are, all the way down,
\* strings, finite numbers, booleans, null or such objects; it is the
\* string v when v is a string that is not valid JSON text; and when v is a
\* string that is valid JSON text it is the value JSON.parse reads from it,
\* which is not the string v.
C10_RoundTripJson ==
    \A p \in Procs :
        HasSet(p) =>
            LET v == calls[p].a.value
                r == getSetting(calls[p].a.key, Null)
            IN  /\ (v.t = "obj" /\ JsonSafe(v)) => r = v
                /\ (v.t = "str" /\ ~JsonParse(v.s).ok) => r = v
                /\ (v.t = "str" /\ JsonParse(v.s).ok)
                      => (r # v /\ r = JsonParse(v.s).v)

\* C10 witness: the string "123" has been set and reads back as the number
\* 123.
C10_Witness ==
    \E p \in Procs :
        /\ HasSet(p)
        /\ calls[p].a.value = Str(S_123)
        /\ getSetting(calls[p].a.key, Null) = Whole(123)

\* A number that is not NaN and is not below zero.
NonNegativeNumber(v) == TypeOf(v) = "number" /\ v # NaN /\ ~LessThanZero(v)

\* C11: in every reachable state, whatever has been written (setSetting on
\* the category-quota key included), getCategoryQuotas returns a proQuota
\* and a flashQuota that are both numbers greater than or equal to 0.
C11_QuotasNonNegative ==
    /\ NonNegativeNumber(getCategoryQuotas.proQuota)
    /\ NonNegativeNumber(getCategoryQuotas.flashQuota)

\* The value held under the category-quota key, as getSetting decodes it.
StoredQuotas == getSetting("category_quotas", Undef)

\* The field-by-field fallback: the stored field when it is a number, the
\* field's own default otherwise.
FieldOrDefault(name, default) ==
    IF TypeOf(Prop(StoredQuotas, name)) = "number"
    THEN Prop(StoredQuotas, name)
    ELSE Whole(default)

\* With no row under the key, getCategoryQuotas returns {50, 1500}.
C12_Defaults ==
    ~settings["category_quotas"].present
       => getCategoryQuotas = [proQuota |-> Whole(50), flashQuota |-> Whole(1500)]

\* With a row under the key, each field falls back on its own.
C12_FieldByField ==
    settings["category_quotas"].present
       => /\ getCategoryQuotas.proQuota = FieldOrDefault(ProQuotaName, 50)
          /\ getCategoryQuotas.flashQuota = FieldOrDefault(FlashQuotaName, 1500)

\* Once setCategoryQuotas(p, f) has succeeded, getCategoryQuotas returns
\* the floored p and f.
C12_Floored ==
    \A p \in Procs :
        (calls[p].op = "setCategoryQuotas" /\ Returned(p) /\ calls[p].result = "ok")
           => getCategoryQuotas = [proQuota |-> MathFloor(calls[p].a.args[1]),
                                   flashQuota |-> MathFloor(calls[p].a.args[2])]

\* C12: getCategoryQuotas with no prior write returns {proQuota: 50,
\* flashQuota: 1500}; when a value is stored each of the two fields is the
\* stored field when that is numeric and its own default otherwise,
\* independently of the other field; after a successful
\* setCategoryQuotas(p, f) it returns the floored p and f.
C12_GetCategoryQuotas == C12_Defaults /\ C12_FieldByField /\ C12_Floored

(***************************************************************************)
(* SpecRegistry: the worker key registry with the store's clock, next to   *)
(* writes of a model and of a setting.                                     *)
(***************************************************************************)
NextRegistry ==
    \/ NextWorkers
    \/ \E p \in {"p1"} :
        \/ setModelConfig(p, "m1", "Pro", Null, Whole(3))
        \/ setModelConfig_runDb(p)
        \/ setModelConfig_sync(p)
        \/ setSetting(p, "k1", Str(S_abc), FALSE)
        \/ setSetting_runDb(p)
        \/ setSetting_sync(p)

SpecRegistry == Init /\ [][NextRegistry]_vars

\* One step, seen from the row of key k: a row that stays keeps its
\* created_at; a row goes only by the statement of a deleteWorkerKey on k
\* and comes only by the statement of an addWorkerKey on k; and the
\* statement of an updateWorkerKeySafety on k leaves every table as it was
\* but for the safety_enabled column of k's row.
C13_Step(k) ==
    /\ (worker_keys[k].present /\ worker_keys'[k].present)
          => worker_keys'[k].created_at = worker_keys[k].created_at
    /\ (worker_keys[k].present /\ ~worker_keys'[k].present)
          => \E p \in Procs : RunsOn(p, {"deleteWorkerKey"}, k)
    /\ (~worker_keys[k].present /\ worker_keys'[k].present)
          => \E p \in Procs : RunsOn(p, {"addWorkerKey"}, k)
    /\ \A p \in Procs :
          RunsOn(p, {"updateWorkerKeySafety"}, k)
             => /\ settings' = settings
                /\ models_config' = models_config
                /\ \A j \in ApiKeys \ {k} : worker_keys'[j] = worker_keys[j]
                /\ worker_keys'[k].present = worker_keys[k].present
                /\ worker_keys[k].present
                      => [worker_keys'[k] EXCEPT !.safety_enabled =
                                                  worker_keys[k].safety_enabled]
                            = worker_keys[k]

\* C13: createdAt of a WorkerKey is immutable: from the addWorkerKey that
\* creates the row until the deleteWorkerKey that removes it, no operation
\* (updateWorkerKeySafety, a failing second addWorkerKey, any operation on
\* other keys or tables) changes the row's createdAt; updateWorkerKeySafety
\* changes only the safetyEnabled field of the named row.
C13_CreatedAtImmutable == [][\A k \in ApiKeys : C13_Step(k)]_vars

\* C13 witness: an updateWorkerKeySafety has switched off the safety of a
\* row created before the clock's current time, while the other key, a model
\* and a setting are in the store.
C13_Witness ==
    \E p \in Procs :
        /\ calls[p].op = "updateWorkerKeySafety"
        /\ calls[p].outcome = "applied"
        /\ worker_keys[calls[p].a.apiKey].present
        /\ worker_keys[calls[p].a.apiKey].safety_enabled = 0
        /\ worker_keys[calls[p].a.apiKey].created_at < now
        /\ \E j \in ApiKeys \ {calls[p].a.apiKey} : worker_keys[j].present
        /\ models_config["m1"].present
        /\ settings["k1"].present

C15_Rejects(a) ==
    \/ (a.category = "Custom" /\ a.dailyQuotaDb # Null /\ ~IsInteger(a.dailyQuotaDb))
    \/ LessThanZero(a.dailyQuotaDb)
    \/ (a.category \in {"Pro", "Flash"} /\ a.individualQuotaDb # Null
        /\ ~IsInteger(a.individualQuotaDb))
    \/ LessThanZero(a.individualQuotaDb)

\* The steps of p's setModelConfig: the step that starts the call rejects
\* it exactly on those inputs and issues the statement otherwise; the
\* statement, when the store applies it, stores the normalised quotas.
C15_Step(p) ==
    LET c == calls[p]
        d == calls'[p]
    IN  /\ (Free(p) /\ d # c /\ d.op = "setModelConfig")
              => /\ d.stmts = 0
                 /\ IF C15_Rejects(d.a)
                    THEN d.pc = "done" /\ d.result = "ValidationError"
                    ELSE d.pc = "stmt" /\ d.result = "none"
                 /\ (d.a.category \in {"Pro", "Flash"} /\ d.a.dailyQuotaDb = Num(15)
                     /\ d.a.individualQuotaDb \in {Null, Whole(3)})
                       => d.pc = "stmt"
                 /\ (d.a.category = "Custom" /\ d.a.individualQuotaDb = Num(15)
                     /\ d.a.dailyQuotaDb \in {Null, Whole(2)})
                       => d.pc = "stmt"
        /\ (AtStmt(p, {"setModelConfig"}) /\ d.outcome = "applied")
              => /\ models_config'[c.a.modelId].present
                 /\ models_config'[c.a.modelId].category = c.a.category
                 /\ models_config'[c.a.modelId].daily_quota = c.a.dailyQuotaDb
                 /\ models_config'[c.a.modelId].individual_quota
                       = c.a.individualQuotaDb

\* C15: setModelConfig rejects its input exactly when (category is Custom
\* and dailyQuota is non-null and not an integer), or dailyQuota is
\* negative for any category, or (category is Pro or Flash and
\* individualQuota is non-null and not an integer), or individualQuota is
\* negative for any category, and accepts otherwise; a non-integer
\* dailyQuota with category Pro or Flash, and a non-integer individualQuota
\* with category Custom, are accepted and stored.
C15_RejectsExactly == [][\A p \in Procs : C15_Step(p)]_vars

\* C15 witness: setModelConfig has stored the individualQuota 1.5 for a
\* Custom model.
C15_Witness ==
    \E p \in Procs :
        /\ calls[p].op = "setModelConfig"
        /\ calls[p].outcome = "applied"
        /\ calls[p].a.category = "Custom"
        /\ calls[p].a.individualQuota = Num(15)
        /\ models_config[calls[p].a.modelId].present
        /\ models_config[calls[p].a.modelId].category = "Custom"
        /\ models_config[calls[p].a.modelId].individual_quota = Num(15)

(***************************************************************************)
(* The read operations as calls: each awaits one SELECT and returns.       *)
(***************************************************************************)
ReadOps == {"getSetting", "getModelsConfig", "getCategoryQuotas",
            "getAllWorkerKeys", "getWorkerKeySafetySetting", "getGitHubConfig"}

\* A read runs up to its await of getDb or allDb.
ReadIssue(p, op, a) ==
    /\ Free(p)
    /\ UNCHANGED <<tables, now>>
    /\ Issue(p, op, a)

\* The awaited SELECT has returned and the call returns value.
AfterSelect(p, value) ==
    calls' = [calls EXCEPT ![p].stmts = @ + 1, ![p].outcome = "selected",
                           ![p].pc = "done", ![p].result = "ok",
                           ![p].value = value,
                           ![p].changed = @ \/ Changes]

\* getDb / allDb rejects with the driver's error, which no read catches.
SelectFault(p) ==
    \E err \in StorageFaults : AfterStmt(p, "fault", "done", err.kind)

getSettingCall(p, key, defaultValue) ==
    ReadIssue(p, "getSetting", [key |-> key, defaultValue |-> defaultValue])

getSetting_getDb(p) ==
    /\ AtStmt(p, {"getSetting"})
    /\ UNCHANGED <<tables, now>>
    /\ \/ SelectFault(p)
       \/ AfterSelect(p, getSetting(calls[p].a.key, calls[p].a.defaultValue))

getModelsConfigCall(p) == ReadIssue(p, "getModelsConfig", [args |-> <<>>])

getModelsConfig_allDb(p) ==
    /\ AtStmt(p, {"getModelsConfig"})
    /\ UNCHANGED <<tables, now>>
    /\ \/ SelectFault(p)
       \/ AfterSelect(p, getModelsConfig)

getCategoryQuotasCall(p) == ReadIssue(p, "getCategoryQuotas", [args |-> <<>>])

\* A variant of getCategoryQuotas_getDb that writes the defaults under the
\* key when it finds no row.
getCategoryQuotas_getDb_WriteBack(p) ==
    /\ AtStmt(p, {"getCategoryQuotas"})
    /\ UNCHANGED <<models_config, worker_keys, now>>
    /\ settings' =
          IF settings["category_quotas"].present THEN settings
          ELSE [settings EXCEPT !["category_quotas"] =
                  [present |-> TRUE,
                   value |-> ValueToStore(CategoryQuotasObj(Whole(DefaultProQuota),
                                                            Whole(DefaultFlashQuota)))]]
    /\ \/ SelectFault(p)
       \/ AfterSelect(p, getCategoryQuotas)

getCategoryQuotas_getDb(p) ==
    /\ AtStmt(p, {"getCategoryQuotas"})
    /\ UNCHANGED <<tables, now>>
    /\ \/ SelectFault(p)
       \/ AfterSelect(p, getCategoryQuotas)

\* The keys that have a row, and the orders ORDER BY created_at DESC may
\* return them in (the order of rows of equal created_at is the store's
\* choice).
PresentKeys == {k \in ApiKeys : worker_keys[k].present}

CreatedAtDesc ==
    {o \in [1..Cardinality(PresentKeys) -> PresentKeys] :
        /\ \A i, j \in DOMAIN o : i # j => o[i] # o[j]
        /\ \A i, j \in DOMAIN o :
              i < j => worker_keys[o[i]].created_at >= worker_keys[o[j]].created_at}

\* rows.map(row => ({key, description, safetyEnabled, createdAt}))
WorkerKeyEntry(k) ==
    [key |-> k,
     description |-> IF worker_keys[k].description = <<>> THEN <<>>
                     ELSE worker_keys[k].description,
     safetyEnabled |-> worker_keys[k].safety_enabled = 1,
     createdAt |-> worker_keys[k].created_at]

\* The lists getAllWorkerKeys may return.
getAllWorkerKeys ==
    {[i \in 1..Cardinality(PresentKeys) |-> WorkerKeyEntry(o[i])] : o \in CreatedAtDesc}

getAllWorkerKeysCall(p) == ReadIssue(p, "getAllWorkerKeys", [args |-> <<>>])

getAllWorkerKeys_allDb(p) ==
    /\ AtStmt(p, {"getAllWorkerKeys"})
    /\ UNCHANGED <<tables, now>>
    /\ \/ SelectFault(p)
       \/ \E rows \in getAllWorkerKeys : AfterSelect(p, rows)

getWorkerKeySafetySettingCall(p, apiKey) ==
    ReadIssue(p, "getWorkerKeySafetySetting", [apiKey |-> apiKey])

getWorkerKeySafetySetting_getDb(p) ==
    /\ AtStmt(p, {"getWorkerKeySafetySetting"})
    /\ UNCHANGED <<tables, now>>
    /\ \/ SelectFault(p)
       \/ AfterSelect(p, Bool(getWorkerKeySafetySetting(calls[p].a.apiKey)))

getGitHubConfigCall(p) == ReadIssue(p, "getGitHubConfig", [args |-> <<>>])

getGitHubConfig_getDb(p) ==
    /\ AtStmt(p, {"getGitHubConfig"})
    /\ UNCHANGED <<tables, now>>
    /\ \/ SelectFault(p)
       \/ AfterSelect(p, getGitHubConfig)

(***************************************************************************)
(* SpecReads: one caller reading and writing all three tables.             *)
(***************************************************************************)
NextReads ==
    \/ Tick
    \/ \E p \in {"p1"} :
        \/ \E k \in {"k1", "category_quotas"}, d \in {Null, Str(S_123)} :
              getSettingCall(p, k, d)
        \/ getSetting_getDb(p)
        \/ getModelsConfigCall(p)
        \/ getModelsConfig_allDb(p)
        \/ getCategoryQuotasCall(p)
        \/ getCategoryQuotas_getDb(p)
        \/ getAllWorkerKeysCall(p)
        \/ getAllWorkerKeys_allDb(p)
        \/ \E k \in ApiKeys : getWorkerKeySafetySettingCall(p, k)
        \/ getWorkerKeySafetySetting_getDb(p)
        \/ getGitHubConfigCall(p)
        \/ getGitHubConfig_getDb(p)
        \/ setSetting(p, "k1", Str(S_abc), FALSE)
        \/ setCategoryQuotas(p, Whole(5), Whole(10))
        \/ setGitHubConfig(p, Str(S_abc), Str(S_x), Str(DefaultDbPath), Null)
        \/ setSetting_runDb(p)
        \/ setSetting_sync(p)
        \/ setModelConfig(p, "m1", "Pro", Null, Whole(3))
        \/ setModelConfig_runDb(p)
        \/ setModelConfig_sync(p)
        \/ \E k \in ApiKeys : addWorkerKey(p, k, S_d)
        \/ addWorkerKey_runDb(p)
        \/ addWorkerKey_sync(p)
        \/ updateWorkerKeySafety(p, "K1", FALSE)
        \/ updateWorkerKeySafety_runDb(p)
        \/ updateWorkerKeySafety_sync(p)

SpecReads == Init /\ [][NextReads]_vars

\* A step of p's read call: the step that starts it or the return of its
\* SELECT.  It invokes no sync, leaves every table as it was, and when it
\* returns the default for an absent row the row is still absent.
C16_Step(p) ==
    LET c == calls[p]
        d == calls'[p]
    IN  (d.op \in ReadOps /\ d.pc # c.pc)
           => /\ tables' = tables
              /\ d.pc \in {"stmt", "done"}
              /\ d.syncs = 0
              /\ ~d.synced
              /\ ~d.changed
              /\ (d.op = "getSetting" /\ d.outcome = "selected"
                  /\ ~settings[d.a.key].present)
                    => /\ d.value = d.a.defaultValue
                       /\ ~settings'[d.a.key].present
              /\ (d.op = "getCategoryQuotas" /\ d.outcome = "selected"
                  /\ ~settings["category_quotas"].present)
                    => /\ d.value = [proQuota |-> Whole(50), flashQuota |-> Whole(1500)]
                       /\ ~settings'["category_quotas"].present
              /\ (d.op = "getGitHubConfig" /\ d.outcome = "selected"
                  /\ ~settings["github_config"].present)
                    => ~settings'["github_config"].present
              /\ (d.op = "getWorkerKeySafetySetting" /\ d.outcome = "selected"
                  /\ ~worker_keys[d.a.apiKey].present)
                    => /\ d.value = Bool(TRUE)
                       /\ ~worker_keys'[d.a.apiKey].present

\* C16: the read operations (getSetting, getModelsConfig,
\* getCategoryQuotas, getAllWorkerKeys, getWorkerKeySafetySetting,
\* getGitHubConfig) never invoke the Sync Trigger and leave every table of
\* the store unchanged, also when they return a default for an absent row:
\* a default is never written back.
C16_ReadsChangeNothing == [][\A p \in Procs : C16_Step(p)]_vars

\* C16 witness: getCategoryQuotas has returned {50, 1500} with no row under
\* the category-quota key, while another setting, a model and a worker key
\* are in the store.
C16_Witness ==
    \E p \in Procs :
        /\ Returned(p)
        /\ calls[p].op = "getCategoryQuotas"
        /\ calls[p].result = "ok"
        /\ calls[p].value = [proQuota |-> Whole(50), flashQuota |-> Whole(1500)]
        /\ calls[p].syncs = 0
        /\ ~settings["category_quotas"].present
        /\ settings["k1"].present
        /\ models_config["m1"].present
        /\ \E k \in ApiKeys : worker_keys[k].present

(***************************************************************************)
(* SpecConcurrent: two callers whose calls interleave at their awaits.     *)
(* Both add K1 and K2; K1 is also updated and deleted, K2 never is.        *)
(***************************************************************************)
NextConcurrent ==
    \E p \in Procs :
        \/ \E k \in ApiKeys : addWorkerKey(p, k, <<>>)
        \/ addWorkerKey_runDb(p)
        \/ addWorkerKey_sync(p)
        \/ updateWorkerKeySafety(p, "K1", FALSE)
        \/ updateWorkerKeySafety_runDb(p)
        \/ updateWorkerKeySafety_sync(p)
        \/ deleteWorkerKey(p, "K1")
        \/ deleteWorkerKey_runDb(p)
        \/ setModelConfig(p, "m1", "Pro", Null, Whole(3))
        \/ setModelConfig_runDb(p)
        \/ setModelConfig_sync(p)
        \/ getWorkerKeySafetySettingCall(p, "K1")
        \/ getWorkerKeySafetySetting_getDb(p)

SpecConcurrent == Init /\ [][NextConcurrent]_vars

\* p's call is an addWorkerKey of key k whose INSERT has inserted the row.
Inserted(p, k) ==
    /\ calls[p].op = "addWorkerKey"
    /\ calls[p].a.apiKey = k
    /\ calls[p].outcome = "applied"

\* One step, as C17 states it: no call has executed more than one storage
\* statement, and when q's INSERT of key k executes (the store raising no
\* other error) while p's addWorkerKey(k), which has inserted the row, is
\* still awaiting its sync, q's call fails with Conflict and inserts
\* nothing.  Each table is a function of its primary key, so that it holds
\* at most one row per key by the store's definition.
C17_StatedStep(p, q) ==
    /\ calls'[p].stmts <= 1
    /\ \A k \in ApiKeys :
          (/\ p # q
           /\ Inserted(p, k)
           /\ calls[p].pc = "sync"
           /\ RunsOn(q, {"addWorkerKey"}, k)
           /\ calls'[q].outcome # "fault")
          => /\ calls'[q].outcome = "constraint"
             /\ calls'[q].result = "Conflict"
             /\ worker_keys' = worker_keys

\* C17 (as stated): under any interleaving of concurrent callers, every
\* operation executes at most one storage statement, no table holds two
\* rows with the same primary key, and of two concurrent addWorkerKey(K)
\* calls on an absent K exactly one inserts the row and the other fails
\* with Conflict.
C17_ExactlyOneInserts == [][\A p, q \in Procs : C17_StatedStep(p, q)]_vars

\* One step, as the code has it: no call has executed more than one
\* storage statement; an INSERT that executes inserts the row when the key
\* has none and fails with Conflict, changing nothing, when it has one; a
\* row goes only by the DELETE of a deleteWorkerKey on its key; and the key
\* that no caller deletes is never inserted by two calls.
C17_AmendedStep(p, q) ==
    /\ calls'[p].stmts <= 1
    /\ \A k \in ApiKeys :
          /\ (RunsOn(q, {"addWorkerKey"}, k) /\ calls'[q].outcome # "fault")
                => IF worker_keys[k].present
                   THEN /\ calls'[q].outcome = "constraint"
                        /\ calls'[q].result = "Conflict"
                        /\ worker_keys' = worker_keys
                   ELSE /\ calls'[q].outcome = "applied"
                        /\ worker_keys'[k].present
                        /\ \A j \in ApiKeys \ {k} : worker_keys'[j] = worker_keys[j]
          /\ (worker_keys[k].present /\ ~worker_keys'[k].present)
                => \E r \in Procs : RunsOn(r, {"deleteWorkerKey"}, k)
    /\ p # q => ~(Inserted(p, "K2") /\ Inserted(q, "K2"))'

\* C17 (amended): every operation executes at most one storage statement;
\* an addWorkerKey(K) whose INSERT executes inserts the row when K has no
\* row at that moment and fails with Conflict when it has one; so of two
\* concurrent addWorkerKey(K) calls on an absent K exactly one inserts and
\* the other fails with Conflict as long as no deleteWorkerKey(K) executes
\* between their two INSERTs, and both insert when one does.
C17_OneInsertPerRow == [][\A p, q \in Procs : C17_AmendedStep(p, q)]_vars

\* C17 witness: one caller's addWorkerKey(K2) has inserted the row and
\* awaits its sync while the other caller's addWorkerKey(K2) has failed
\* with Conflict; K2 is never deleted, so that INSERT ran during the first
\* call.
C17_Witness ==
    \E p, q \in Procs :
        /\ p # q
        /\ Inserted(p, "K2")
        /\ calls[p].pc = "sync"
        /\ calls[q].op = "addWorkerKey"
        /\ calls[q].a.apiKey = "K2"
        /\ calls[q].outcome = "constraint"
        /\ calls[q].result = "Conflict"
        /\ calls[q].stmts = 1
        /\ worker_keys["K2"].present

=============================================================================
